---- MODULE Spec2Model ----
(***************************************************************************)
(* A model of the AXO referral engine backend (src/main.py) and of its     *)
(* launcher (src/run_flask.py).                                             *)
(*                                                                         *)
(* Money amounts are Python floats in the source.  The model keeps them    *)
(* as exact integers counted in hundredths (0.01 -> 1, 3.29 -> 329); a     *)
(* quotient of two amounts is kept as a reduced fraction.                  *)
(***************************************************************************)
EXTENDS Integers, Sequences, FiniteSets, TLC

(***************************************************************************)
(* Bounds of the model.                                                    *)
(***************************************************************************)
\* request handlers that may be in progress at the same time
NumHandlers == 2
\* browser sessions (cookie jars) talking to the admin API
NumSessions == 2
\* the wall clock int(time.time()) runs from 0 to MaxClock
MaxClock == 2
\* the number of times app.run may return without raising
MaxReturns == 2

Handlers == 1..NumHandlers
Sessions == 1..NumSessions

(***************************************************************************)
(* State.                                                                  *)
(***************************************************************************)
VARIABLES
    ADMIN_PIN,      \* line 23, from the environment
    AXO_PRICE_USD,  \* line 25, the module global mirrored at line 277
    SETTINGS,       \* lines 35-67
    session,        \* session[s]: whether session s holds admin_authed
    last,           \* the last exchange on the admin API: request and reply
    pc,             \* pc[h]: where handler h stands inside api_market
    loc,            \* loc[h]: the local variables of handler h's api_market call
    call,           \* call[h]: the outcome of the provider call handler h made
    resp,           \* the last reply api_market returned
    now,            \* int(time.time())
    running,        \* FlaskServer.running (src/run_flask.py)
    retry_count,    \* the local retry_count of FlaskServer.start_server
    returned,       \* the number of times app.run has returned without raising
    lpc             \* where start_server stands: loop, serving, sleeping, done

launcherVars == <<running, retry_count, returned, lpc>>
vars ==
    <<ADMIN_PIN, AXO_PRICE_USD, SETTINGS, session, last, pc, loc, call, resp, now,
      launcherVars>>
adminVars == <<ADMIN_PIN, AXO_PRICE_USD, SETTINGS, session, last>>
marketVars == <<pc, loc, call, resp>>

(***************************************************************************)
(* Python / JSON values.  Every value is a record [k, n, s]: k is the      *)
(* kind, n the number it carries (hundredths for "num", 0/1 for "bool"),   *)
(* s the characters of a "str" or the items of a "list".                   *)
(***************************************************************************)
None == [k |-> "null", n |-> 0, s |-> <<>>]
NaN == [k |-> "nan", n |-> 0, s |-> <<>>]
Num(c) == [k |-> "num", n |-> c, s |-> <<>>]
Bool(b) == [k |-> "bool", n |-> IF b THEN 1 ELSE 0, s |-> <<>>]
Str(chars) == [k |-> "str", n |-> 0, s |-> chars]
List(items) == [k |-> "list", n |-> 0, s |-> items]

\* Python truth value of v (the operand test of `or`, `and`, `not`)
Truthy(v) ==
    CASE v.k = "null" -> FALSE
      [] v.k = "bool" -> v.n = 1
      [] v.k = "num" -> v.n # 0
      [] v.k = "nan" -> TRUE
      [] v.k = "str" -> v.s # <<>>
      [] v.k = "list" -> v.s # <<>>

\* Python `a or b`
PyOr(a, b) == IF Truthy(a) THEN a ELSE b

\* x > 0 on floats: false for NaN
Gt0(x) == x.k = "num" /\ x.n > 0

RECURSIVE LStrip(_)
LStrip(s) == IF s # <<>> /\ Head(s) = " " THEN LStrip(Tail(s)) ELSE s

RECURSIVE RStrip(_)
RStrip(s) ==
    IF s # <<>> /\ s[Len(s)] = " " THEN RStrip(SubSeq(s, 1, Len(s) - 1)) ELSE s

\* str.strip()
Strip(s) == RStrip(LStrip(s))

Digits == <<"0", "1", "2", "3", "4", "5", "6", "7", "8", "9">>
IsDigit(c) == \E i \in 1..Len(Digits) : Digits[i] = c
DigitVal(c) == (CHOOSE i \in 1..Len(Digits) : Digits[i] = c) - 1

RECURSIVE NatOf(_)
NatOf(ds) ==
    IF ds = <<>> THEN 0
    ELSE NatOf(SubSeq(ds, 1, Len(ds) - 1)) * 10 + DigitVal(ds[Len(ds)])

(***************************************************************************)
(* float(<str>) for the strings the model's inputs are drawn from: blanks  *)
(* around an optional "-", digits and at most one "." with at most two     *)
(* decimals, or "nan".  FloatOfStr is [ok, val]: ok is FALSE where float() *)
(* raises ValueError.                                                      *)
(***************************************************************************)
FloatOfStr(chars) ==
    LET t == Strip(chars)
        neg == t # <<>> /\ Head(t) = "-"
        u == IF neg THEN Tail(t) ELSE t
        dots == {i \in 1..Len(u) : u[i] = "."}
        dot == IF dots = {} THEN Len(u) + 1 ELSE CHOOSE i \in dots : TRUE
        ip == SubSeq(u, 1, dot - 1)
        fp == SubSeq(u, dot + 1, Len(u))
        wellFormed ==
            /\ \A i \in 1..Len(u) : IsDigit(u[i]) \/ u[i] = "."
            /\ Cardinality(dots) <= 1
            /\ Len(ip) + Len(fp) >= 1
            /\ Len(fp) <= 2
        frac == IF Len(fp) = 1 THEN NatOf(fp) * 10 ELSE NatOf(fp)
        mag == NatOf(ip) * 100 + frac
    IN  IF t = <<"n", "a", "n">> THEN [ok |-> TRUE, val |-> NaN]
        ELSE IF wellFormed
             THEN [ok |-> TRUE, val |-> Num(IF neg THEN 0 - mag ELSE mag)]
             ELSE [ok |-> FALSE, val |-> None]

\* float(v): [ok, val]; ok is FALSE where float() raises TypeError/ValueError
PyFloat(v) ==
    CASE v.k = "num" -> [ok |-> TRUE, val |-> v]
      [] v.k = "nan" -> [ok |-> TRUE, val |-> v]
      [] v.k = "bool" -> [ok |-> TRUE, val |-> Num(100 * v.n)]
      [] v.k = "str" -> FloatOfStr(v.s)
      [] v.k = "null" -> [ok |-> FALSE, val |-> None]
      [] v.k = "list" -> [ok |-> FALSE, val |-> None]

RECURSIVE Gcd(_, _)
Gcd(a, b) == IF b = 0 THEN a ELSE Gcd(b, a % b)

\* x / y for x > 0 and y > 0, as the reduced fraction num/den
Quot(x, y) == LET g == Gcd(x, y) IN [num |-> x \div g, den |-> y \div g]
Zero == [num |-> 0, den |-> 1]

(***************************************************************************)
(* JSON request payloads: a JSON object (a function from its keys to       *)
(* values) or some other JSON value.                                       *)
(***************************************************************************)
EmptyDict == [x \in {} |-> None]
Dict(d) == [isdict |-> TRUE, d |-> d, j |-> None]
NonDict(j) == [isdict |-> FALSE, d |-> EmptyDict, j |-> j]

\* dict.get(key, dflt)
Get(d, key, dflt) == IF key \in DOMAIN d THEN d[key] ELSE dflt

\* `payload or {}` followed by a .get on it: [ok, d]; ok is FALSE where the
\* .get raises AttributeError (a truthy payload that is no JSON object)
OrEmptyDict(p) ==
    IF p.isdict THEN [ok |-> TRUE, d |-> p.d]
    ELSE IF Truthy(p.j) THEN [ok |-> FALSE, d |-> EmptyDict]
    ELSE [ok |-> TRUE, d |-> EmptyDict]

(***************************************************************************)
(* The outcome of the one HTTP call api_market makes (requests.get and the *)
(* reading of its response), [kind, usd]:                                  *)
(*   neterr     requests.get raises (connection error, timeout)            *)
(*   status     a response whose r.ok is False                             *)
(*   notjson    r.json() raises: the body is not JSON                      *)
(*   notdict    the body is JSON but no object: data.get raises            *)
(*   ripplebad  data["ripple"] is no object: its .get raises               *)
(*   json       data.get("ripple", {}).get("usd") evaluates to usd; None   *)
(*              stands for a missing "ripple", a missing "usd" and null    *)
(***************************************************************************)
Outcome(kind, usd) == [kind |-> kind, usd |-> usd]
NoCall == Outcome("none", None)

UsdValues ==
    { None, Num(0), Num(329), Num(331), NaN,
      Str(<<"3", ".", "2", "9">>), Str(<<"a">>), List(<<<<"a">>>>) }

Outcomes ==
    {Outcome(kd, None) : kd \in {"neterr", "status", "notjson", "notdict", "ripplebad"}}
      \cup {Outcome("json", u) : u \in UsdValues}

\* the default price literal 0.01 of line 103
DefaultAxoUsd == Num(1)

\* line 103: float(SETTINGS.get("axo_price_usd") or 0.01), as [ok, val]
AxoUsdOf(cfg) == PyFloat(PyOr(cfg, DefaultAxoUsd))

\* line 129: float(data.get("ripple", {}).get("usd") or 0.0), as [ok, val]
UsdOf(r) == PyFloat(PyOr(r.usd, Num(0)))

\* lines 113-129: the exception the try block raises with outcome r, "" when
\* it raises none
ExcOf(r) ==
    CASE r.kind = "neterr" -> "RequestException"
      [] r.kind = "notjson" -> "ValueError"
      [] r.kind \in {"notdict", "ripplebad"} -> "AttributeError"
      [] r.kind = "json" /\ ~UsdOf(r).ok ->
            IF PyOr(r.usd, Num(0)).k = "str" THEN "ValueError" ELSE "TypeError"
      [] OTHER -> ""

Raises(r) == ExcOf(r) # ""

\* (mutant) except requests.RequestException
CaughtRequestErrorsOnly(exc) == exc = "RequestException"

\* line 131: except Exception
Caught(exc) ==
    exc \in {"RequestException", "ValueError", "AttributeError", "TypeError"}

\* (mutant) a second provider asked when the first one fails
CallsWithFallback(r) ==
    IF Raises(r) \/ r.kind = "status"
    THEN <<"api.coingecko.com", "fallback">>
    ELSE <<"api.coingecko.com">>

\* (mutant) no provider asked any more once a read has failed
CallsUntilFailure(r) ==
    IF resp.source = "coingecko_error" THEN <<>> ELSE <<"api.coingecko.com">>

\* lines 113-123: the hosts asked during one call of api_market, in order
CallsOf(r) == <<"api.coingecko.com">>

\* (mutant) the price of the reply before kept when the call gives none
XrpUsdStale(r) ==
    IF r.kind = "json" /\ UsdOf(r).ok /\ r.usd # None THEN UsdOf(r).val
    ELSE resp.xrp_usd

\* lines 107, 125-129: xrp_usd after the try statement
XrpUsdOf(r) == IF r.kind = "json" /\ UsdOf(r).ok THEN UsdOf(r).val ELSE Num(0)

\* (mutant) every failure labelled alike
SourceErrorOnAnyFailure(r) ==
    IF Raises(r) \/ r.kind = "status" \/ (r.kind = "json" /\ r.usd = None)
    THEN "coingecko_error"
    ELSE "coingecko"

\* lines 109, 131-133: source after the try statement
SourceOf(r) == IF Raises(r) THEN "coingecko_error" ELSE "coingecko"

\* lines 137-141
AxoPerXrp(axo_usd, xrp_usd) ==
    IF Gt0(axo_usd) /\ Gt0(xrp_usd) THEN Quot(xrp_usd.n, axo_usd.n) ELSE Zero

(***************************************************************************)
(* The type normalisers of admin_config_save.                              *)
(***************************************************************************)
\* str.lower() on the letters the model's inputs use
LowerChar(c) ==
    CASE c = "T" -> "t" [] c = "R" -> "r" [] c = "U" -> "u" [] c = "E" -> "e"
      [] OTHER -> c
Lower(chars) == [i \in 1..Len(chars) |-> LowerChar(chars[i])]

RECURSIVE NatChars(_)
NatChars(m) ==
    IF m < 10 THEN <<Digits[m + 1]>>
    ELSE NatChars(m \div 10) \o <<Digits[(m % 10) + 1]>>

\* str(v) for a number: a whole number stands for a JSON integer ("5"), any
\* other for a float with its one or two decimals ("0.5", "3.29")
NumChars(c) ==
    LET mag == IF c < 0 THEN 0 - c ELSE c
        fr == mag % 100
        frChars == IF fr % 10 = 0 THEN <<Digits[(fr \div 10) + 1]>>
                   ELSE <<Digits[(fr \div 10) + 1], Digits[(fr % 10) + 1]>>
    IN  (IF c < 0 THEN <<"-">> ELSE <<>>) \o NatChars(mag \div 100)
          \o (IF fr = 0 THEN <<>> ELSE <<".">> \o frChars)

\* str(v)
StrOf(v) ==
    CASE v.k = "str" -> v.s
      [] v.k = "num" -> NumChars(v.n)
      [] v.k = "nan" -> <<"n", "a", "n">>
      [] v.k = "bool" -> IF v.n = 1 THEN <<"T", "r", "u", "e">>
                         ELSE <<"F", "a", "l", "s", "e">>
      [] v.k = "null" -> <<"N", "o", "n", "e">>
      [] v.k = "list" -> <<"[", "]">>

\* line 215
as_bool(v) == IF v.k = "bool" THEN v ELSE Bool(Lower(StrOf(v)) = <<"t", "r", "u", "e">>)

\* lines 217-221
as_float(v, d) == IF PyFloat(v).ok THEN PyFloat(v).val ELSE d

\* int(x) of a float: truncation towards zero; raises for NaN
Trunc(c) == IF c < 0 THEN 0 - (((0 - c) \div 100) * 100) ELSE (c \div 100) * 100

\* lines 223-227
as_int(v, d) ==
    IF PyFloat(v).ok /\ PyFloat(v).val.k = "num" THEN Num(Trunc(PyFloat(v).val.n))
    ELSE d

\* str.split(","): the pieces between the commas
RECURSIVE Split(_, _)
Split(chars, cur) ==
    IF chars = <<>> THEN <<cur>>
    ELSE IF Head(chars) = "," THEN <<cur>> \o Split(Tail(chars), <<>>)
    ELSE Split(Tail(chars), Append(cur, Head(chars)))

\* [x.strip() for x in pieces if x.strip()]
RECURSIVE StripNonEmpty(_)
StripNonEmpty(pieces) ==
    IF pieces = <<>> THEN <<>>
    ELSE (IF Strip(Head(pieces)) = <<>> THEN <<>> ELSE <<Strip(Head(pieces))>>)
           \o StripNonEmpty(Tail(pieces))

\* lines 229-235
as_list_csv(v) ==
    IF ~Truthy(v) THEN List(<<>>)
    ELSE IF v.k = "list" THEN v
    ELSE List(StripNonEmpty(Split(StrOf(v), <<>>)))

\* line 255: body.get("vault_addr", SETTINGS["vault_addr"]).strip(), as
\* [ok, val]; ok is FALSE where the value has no .strip (AttributeError)
VaultAddrOf(d, settings) ==
    LET v == Get(d, "vault_addr", settings.vault_addr)
    IN  IF v.k = "str" THEN [ok |-> TRUE, val |-> Str(Strip(v.s))]
        ELSE [ok |-> FALSE, val |-> None]

\* lines 239-271: the dict handed to SETTINGS.update, from the body d and the
\* current settings
NewSettings(d, settings) ==
    [ signup_bonus |-> as_int(Get(d, "signup_bonus", None), settings.signup_bonus),
      referral_reward |-> as_int(Get(d, "referral_reward", None), settings.referral_reward),
      require_trustline |-> as_bool(Get(d, "require_trustline", None)),
      axo_price_usd |-> as_float(Get(d, "axo_price_usd", None), settings.axo_price_usd),
      buy_enabled |-> as_bool(Get(d, "buy_enabled", None)),
      quick_signup_enabled |-> as_bool(Get(d, "quick_signup_enabled", None)),
      fee_xrp |-> as_float(Get(d, "fee_xrp", None), settings.fee_xrp),
      vault_addr |-> VaultAddrOf(d, settings).val,
      daily_cap_axo |-> as_int(Get(d, "daily_cap_axo", None), settings.daily_cap_axo),
      max_claims_per_wallet |->
          as_int(Get(d, "max_claims_per_wallet", None), settings.max_claims_per_wallet),
      rate_limit_claims_per_hour |->
          as_int(Get(d, "rate_limit_claims_per_hour", None),
                 settings.rate_limit_claims_per_hour),
      whitelist_addresses |-> as_list_csv(Get(d, "whitelist_addresses", None)),
      blacklist_addresses |-> as_list_csv(Get(d, "blacklist_addresses", None)),
      airdrop_paused |-> as_bool(Get(d, "airdrop_paused", None)),
      maintenance_mode |-> as_bool(Get(d, "maintenance_mode", None)) ]

\* (mutant) the entries stored one by one as they are computed: those ahead
\* of vault_addr are already changed when line 255 raises
UpdatedEntryByEntry(d, settings) ==
    [settings EXCEPT
       !.signup_bonus = as_int(Get(d, "signup_bonus", None), settings.signup_bonus),
       !.referral_reward =
           as_int(Get(d, "referral_reward", None), settings.referral_reward),
       !.require_trustline = as_bool(Get(d, "require_trustline", None)),
       !.axo_price_usd =
           as_float(Get(d, "axo_price_usd", None), settings.axo_price_usd),
       !.buy_enabled = as_bool(Get(d, "buy_enabled", None)),
       !.quick_signup_enabled = as_bool(Get(d, "quick_signup_enabled", None)),
       !.fee_xrp = as_float(Get(d, "fee_xrp", None), settings.fee_xrp)]

\* lines 239-271: SETTINGS when an entry of the dict literal raises: the
\* literal is the argument of SETTINGS.update, which is then never called
SettingsOnRaise(d, settings) == settings

\* lines 35-67: SETTINGS at import, from the environment's AXO_PRICE and
\* XRP_VAULT_ADDR
InitialSettings(axo_price, vault) ==
    [ signup_bonus |-> Num(100000),
      referral_reward |-> Num(30000),
      require_trustline |-> Bool(TRUE),
      axo_price_usd |-> axo_price,
      buy_enabled |-> Bool(TRUE),
      quick_signup_enabled |-> Bool(FALSE),
      fee_xrp |-> Num(25),
      vault_addr |-> vault,
      daily_cap_axo |-> Num(0),
      max_claims_per_wallet |-> Num(100),
      rate_limit_claims_per_hour |-> Num(600),
      whitelist_addresses |-> List(<<>>),
      blacklist_addresses |-> List(<<>>),
      airdrop_paused |-> Bool(FALSE),
      maintenance_mode |-> Bool(FALSE) ]

(***************************************************************************)
(* Initial state and replies.                                              *)
(***************************************************************************)
GoodPin == Str(<<"1", "2", "3", "4">>)
BadPin == Str(<<"0", "0", "0", "0">>)

\* the locals of api_market before line 103
NoLocals ==
    [cfg |-> None, axo_usd |-> Num(0), calls |-> <<>>, xrp_usd |-> Num(0),
     source |-> ""]

NoReply ==
    [status |-> 0, axo_usd |-> Num(0), xrp_usd |-> Num(0), axo_per_xrp |-> Zero,
     source |-> "", t |-> 0]

\* the reply of the framework to an exception that leaves the view function
ErrorReply == [NoReply EXCEPT !.status = 500]

Exchange(s, op, pin, status, data) ==
    [s |-> s, op |-> op, pin |-> pin, status |-> status, data |-> data]

Init ==
    /\ ADMIN_PIN \in {Str(<<>>), GoodPin}
    /\ AXO_PRICE_USD = DefaultAxoUsd
    /\ SETTINGS = InitialSettings(AXO_PRICE_USD, Str(<<>>))
    /\ session = [s \in Sessions |-> FALSE]
    /\ last = Exchange(0, "none", None, 0, <<>>)
    /\ pc = [h \in Handlers |-> "idle"]
    /\ loc = [h \in Handlers |-> NoLocals]
    /\ call = [h \in Handlers |-> NoCall]
    /\ resp = NoReply
    /\ now = 0
    /\ running = TRUE
    /\ retry_count = 0
    /\ returned = 0
    /\ lpc = "loop"

(***************************************************************************)
(* GET /api/market, in three steps: line 103, the HTTP call of lines       *)
(* 107-133, and lines 137-157.                                             *)
(***************************************************************************)
\* (mutant) the locals kept in module globals, shared by all the handlers
SharedFrame(h) == 1

\* the call frame that holds handler h's local variables
Frame(h) == h

\* lines 103-109
api_market_begin(h) ==
    /\ pc[h] = "idle"
    /\ LET cfg == SETTINGS.axo_price_usd
           a == AxoUsdOf(cfg)
       IN  IF a.ok
           THEN /\ loc' = [loc EXCEPT ![Frame(h)] =
                              [NoLocals EXCEPT !.cfg = cfg, !.axo_usd = a.val,
                                               !.source = "coingecko"]]
                /\ pc' = [pc EXCEPT ![h] = "fetch"]
                /\ resp' = resp
           ELSE /\ resp' = ErrorReply
                /\ UNCHANGED <<pc, loc>>
    /\ UNCHANGED <<adminVars, call, now, launcherVars>>

\* lines 111-133, with outcome r of the call to the provider
api_market_fetch(h, r) ==
    /\ pc[h] = "fetch"
    /\ IF Raises(r) /\ ~Caught(ExcOf(r))
       THEN /\ resp' = ErrorReply
            /\ loc' = [loc EXCEPT ![Frame(h)] = NoLocals]
            /\ call' = call
            /\ pc' = [pc EXCEPT ![h] = "idle"]
       ELSE /\ loc' = [loc EXCEPT ![Frame(h)] =
                          [@ EXCEPT !.calls = @ \o CallsOf(r),
                                    !.xrp_usd = XrpUsdOf(r),
                                    !.source = SourceOf(r)]]
            /\ call' = [call EXCEPT ![h] = r]
            /\ pc' = [pc EXCEPT ![h] = "calc"]
            /\ resp' = resp
    /\ UNCHANGED <<adminVars, now, launcherVars>>

\* (mutant) the time of the reply before kept when the call gave no price
ReplyKeepingTime(l) ==
    [status |-> 200,
     axo_usd |-> l.axo_usd,
     xrp_usd |-> l.xrp_usd,
     axo_per_xrp |-> AxoPerXrp(l.axo_usd, l.xrp_usd),
     source |-> l.source,
     t |-> IF l.xrp_usd = Num(0) THEN resp.t ELSE now]

\* lines 145-157: the reply, from the locals l
ReplyOf(l) ==
    [status |-> 200,
     axo_usd |-> l.axo_usd,
     xrp_usd |-> l.xrp_usd,
     axo_per_xrp |-> AxoPerXrp(l.axo_usd, l.xrp_usd),
     source |-> l.source,
     t |-> now]

\* lines 137-157
api_market_return(h) ==
    /\ pc[h] = "calc"
    /\ resp' = ReplyOf(loc[Frame(h)])
    /\ pc' = [pc EXCEPT ![h] = "idle"]
    /\ loc' = [loc EXCEPT ![Frame(h)] = NoLocals]
    /\ call' = [call EXCEPT ![h] = NoCall]
    /\ UNCHANGED <<adminVars, now, launcherVars>>

\* time passes
Tick ==
    /\ now < MaxClock
    /\ now' = now + 1
    /\ UNCHANGED <<adminVars, marketVars, launcherVars>>

(***************************************************************************)
(* The admin API.  Each handler is one step.                               *)
(***************************************************************************)
\* (mutant) the flag kept in a module global instead of the session
AnySessionAuthed(s) == \E x \in Sessions : session[x]

\* lines 73-85, 197: the test on the session's admin_authed
admin_required(s) == session[s]

\* line 173: pin and pin == ADMIN_PIN
PinAccepted(pin) == Truthy(pin) /\ pin = ADMIN_PIN

\* lines 163-179: POST /api/admin/login with JSON payload p
admin_login(s, p) ==
    LET j == OrEmptyDict(p)
        pin == Get(j.d, "pin", Str(<<>>))
    IN  /\ IF ~j.ok
           THEN /\ last' = Exchange(s, "login", None, 500, <<>>)
                /\ session' = session
           ELSE IF ~Truthy(ADMIN_PIN)
           THEN /\ last' = Exchange(s, "login", pin, 500, <<>>)
                /\ session' = session
           ELSE IF PinAccepted(pin)
           THEN /\ last' = Exchange(s, "login", pin, 200, <<>>)
                /\ session' = [session EXCEPT ![s] = TRUE]
           ELSE /\ last' = Exchange(s, "login", pin, 401, <<>>)
                /\ session' = session
        /\ UNCHANGED <<ADMIN_PIN, AXO_PRICE_USD, SETTINGS, marketVars, now, launcherVars>>

\* lines 183-189: POST /api/admin/logout
admin_logout(s) ==
    /\ session' = [session EXCEPT ![s] = FALSE]
    /\ last' = Exchange(s, "logout", None, 200, <<>>)
    /\ UNCHANGED <<ADMIN_PIN, AXO_PRICE_USD, SETTINGS, marketVars, now, launcherVars>>

\* lines 193-201: GET /api/admin/config
admin_config(s) ==
    /\ IF ~admin_required(s)
       THEN last' = Exchange(s, "config", None, 401, <<>>)
       ELSE last' = Exchange(s, "config", None, 200, <<SETTINGS>>)
    /\ UNCHANGED <<ADMIN_PIN, AXO_PRICE_USD, SETTINGS, session, marketVars, now, launcherVars>>

\* lines 205-281: POST /api/admin/config with JSON payload p
admin_config_save(s, p) ==
    LET j == OrEmptyDict(p)
    IN  /\ IF ~admin_required(s)
           THEN /\ last' = Exchange(s, "config_save", None, 401, <<>>)
                /\ UNCHANGED <<SETTINGS, AXO_PRICE_USD>>
           ELSE IF ~j.ok \/ ~VaultAddrOf(j.d, SETTINGS).ok
           THEN /\ last' = Exchange(s, "config_save", None, 500, <<>>)
                /\ SETTINGS' = SettingsOnRaise(j.d, SETTINGS)
                /\ AXO_PRICE_USD' = AXO_PRICE_USD
           ELSE /\ SETTINGS' = NewSettings(j.d, SETTINGS)
                /\ AXO_PRICE_USD' = SETTINGS'.axo_price_usd
                /\ last' = Exchange(s, "config_save", None, 200, <<SETTINGS'>>)
        /\ UNCHANGED <<ADMIN_PIN, session, marketVars, now, launcherVars>>

(***************************************************************************)
(* The launcher, FlaskServer of src/run_flask.py, from line 46 on: the     *)
(* signal handlers are registered and retry_count is 0.                    *)
(***************************************************************************)
\* line 44
max_retries == 10

\* lines 30-32: SIGTERM or SIGINT is delivered; Python runs the handler in the
\* main thread, between two instructions of whatever start_server is doing
signal_handler ==
    /\ lpc # "done"
    /\ running' = FALSE
    /\ UNCHANGED <<retry_count, returned, lpc, adminVars, marketVars, now>>

\* line 46: the test of the while loop; lines 48-62 enter app.run, line 74
\* follows the loop
start_server_test ==
    /\ lpc = "loop"
    /\ lpc' = IF running /\ retry_count < max_retries THEN "serving" ELSE "done"
    /\ UNCHANGED <<running, retry_count, returned, adminVars, marketVars, now>>

\* lines 64-72: app.run raises an Exception
app_run_raises ==
    /\ lpc = "serving"
    /\ retry_count' = retry_count + 1
    /\ lpc' = IF retry_count' < max_retries THEN "sleeping" ELSE "done"
    /\ UNCHANGED <<running, returned, adminVars, marketVars, now>>

\* lines 56-62: app.run returns; the loop goes back to its test
app_run_returns ==
    /\ lpc = "serving"
    /\ returned < MaxReturns
    /\ returned' = returned + 1
    /\ lpc' = "loop"
    /\ UNCHANGED <<running, retry_count, adminVars, marketVars, now>>

\* line 69: time.sleep(5) ends
sleep_ends ==
    /\ lpc = "sleeping"
    /\ lpc' = "loop"
    /\ UNCHANGED <<running, retry_count, returned, adminVars, marketVars, now>>

(***************************************************************************)
(* Request payloads.                                                       *)
(***************************************************************************)
LoginPayloads ==
    { Dict(EmptyDict), Dict("pin" :> GoodPin), Dict("pin" :> BadPin),
      Dict("pin" :> Str(<<>>)), Dict("pin" :> Num(123400)),
      NonDict(None), NonDict(List(<<<<"1">>>>)) }

\* payloads that set the local price
PricePayloads ==
    { Dict("axo_price_usd" :> v) :
        v \in { Num(0), Num(2), Num(0 - 1), NaN, Str(<<"0", ".", "0", "2">>),
                Str(<<"a">>), None } }

SavePayloads ==
    PricePayloads \cup
    { Dict(EmptyDict), NonDict(List(<<<<"1">>>>)), NonDict(Num(0)),
      Dict("vault_addr" :> None), Dict("vault_addr" :> Num(100)),
      Dict("vault_addr" :> Str(<<" ", "r", "X", " ">>)),
      Dict("signup_bonus" :> Num(590) @@ "fee_xrp" :> Str(<<"0", ".", "5">>)),
      Dict("signup_bonus" :> Str(<<"a">>) @@ "buy_enabled" :> Str(<<"T", "R", "U", "E">>)),
      Dict("daily_cap_axo" :> Num(0 - 150) @@ "airdrop_paused" :> Bool(TRUE)),
      Dict("whitelist_addresses" :> Str(<<"r", "X", ",", " ", ",", "r", "Y">>)
             @@ "blacklist_addresses" :> List(<<<<"r", "Z">>>>)) }

\* bodies for the numeric settings, with and without a vault_addr
NumericPayloads ==
    { Dict(EmptyDict),
      Dict("signup_bonus" :> Num(590) @@ "referral_reward" :> Str(<<"7">>)
             @@ "axo_price_usd" :> Num(2) @@ "fee_xrp" :> Str(<<"0", ".", "5">>)
             @@ "daily_cap_axo" :> Num(0 - 150) @@ "max_claims_per_wallet" :> Bool(TRUE)
             @@ "rate_limit_claims_per_hour" :> Str(<<" ", "9", " ">>)),
      Dict("signup_bonus" :> Str(<<"a">>) @@ "referral_reward" :> None
             @@ "axo_price_usd" :> List(<<<<"1">>>>) @@ "fee_xrp" :> Str(<<>>)
             @@ "daily_cap_axo" :> NaN @@ "max_claims_per_wallet" :> Str(<<"1", ".", ".">>)
             @@ "rate_limit_claims_per_hour" :> Str(<<"n", "a", "n">>)),
      Dict("axo_price_usd" :> NaN @@ "fee_xrp" :> Bool(FALSE)
             @@ "vault_addr" :> Str(<<" ", "r", "X", " ">>)),
      Dict("signup_bonus" :> Num(700) @@ "fee_xrp" :> Num(10)
             @@ "vault_addr" :> None),
      Dict("axo_price_usd" :> Num(3) @@ "daily_cap_axo" :> Num(100)
             @@ "vault_addr" :> Num(100)),
      Dict("vault_addr" :> List(<<<<"r", "X">>>>)) }

(***************************************************************************)
(* Specifications.                                                         *)
(***************************************************************************)
\* no request is being handled
Quiet == \A h \in Handlers : pc[h] = "idle"

\* the session of the administrator
Admin == CHOOSE s \in Sessions : TRUE

\* a gunicorn sync worker (lines 1037-1041): one request at a time, each
\* handled from its first line to its reply
Next ==
    \/ \E h \in Handlers : Quiet /\ api_market_begin(h)
    \/ \E h \in Handlers, r \in Outcomes : api_market_fetch(h, r)
    \/ \E h \in Handlers : api_market_return(h)
    \/ Quiet /\ admin_login(Admin, Dict("pin" :> GoodPin))
    \/ \E p \in PricePayloads : Quiet /\ admin_config_save(Admin, p)
    \/ Tick

Spec == Init /\ [][Next]_vars

\* the admin API alone, with every payload
NextAdmin ==
    \/ \E s \in Sessions, p \in LoginPayloads : admin_login(s, p)
    \/ \E s \in Sessions : admin_logout(s)
    \/ \E s \in Sessions : admin_config(s)
    \/ \E s \in Sessions, p \in SavePayloads : admin_config_save(s, p)

SpecAdmin == Init /\ [][NextAdmin]_vars

\* the admin API with JSON objects as bodies of the saves
NextSave ==
    \/ \E s \in Sessions, pin \in {GoodPin, BadPin} : admin_login(s, Dict("pin" :> pin))
    \/ \E s \in Sessions : admin_logout(s)
    \/ \E s \in Sessions, p \in NumericPayloads : admin_config_save(s, p)

SpecSave == Init /\ [][NextSave]_vars

\* the development server of run_flask.py (threaded=True, line 61): the
\* handlers of concurrent requests interleave line by line
ThreadedOutcomes ==
    { Outcome("neterr", None), Outcome("status", None), Outcome("json", None),
      Outcome("json", Str(<<"a">>)), Outcome("json", Num(329)),
      Outcome("json", Num(331)) }

NextThreaded ==
    \/ \E h \in Handlers : api_market_begin(h)
    \/ \E h \in Handlers, r \in ThreadedOutcomes : api_market_fetch(h, r)
    \/ \E h \in Handlers : api_market_return(h)
    \/ Tick

SpecThreaded == Init /\ [][NextThreaded]_vars

\* a handler that has begun runs to its reply (the provider call is bounded
\* by timeout=6, line 119); nothing makes a request arrive
SpecFair ==
    /\ Init
    /\ [][NextThreaded]_vars
    /\ \A h \in Handlers :
          /\ WF_vars(\E r \in ThreadedOutcomes : api_market_fetch(h, r))
          /\ WF_vars(api_market_return(h))

\* the launcher alone.  The loop test and the end of the sleep always come
\* about; nothing makes app.run end, it serves until it raises or returns
NextLauncher ==
    \/ signal_handler
    \/ start_server_test
    \/ app_run_raises
    \/ app_run_returns
    \/ sleep_ends

SpecLauncher ==
    /\ Init
    /\ [][NextLauncher]_vars
    /\ WF_vars(start_server_test)
    /\ WF_vars(sleep_ends)

(***************************************************************************)
(* Properties.                                                             *)
(***************************************************************************)
\* handler h returns its reply in this step
Returns(h) == pc[h] = "calc" /\ pc'[h] = "idle"

\* the provider call with outcome r failed: network error or timeout, a
\* non-success status, or a payload from which no price can be read
ProviderFailed(r) ==
    \/ r.kind \in {"neterr", "status", "notjson", "notdict", "ripplebad"}
    \/ r.kind = "json" /\ r.usd.k \in {"null", "list"}
    \/ r.kind = "json" /\ r.usd.k = "str" /\ ~FloatOfStr(r.usd.s).ok

\* the provider call with outcome r delivered a price
ProviderDelivered(r) ==
    \/ r.kind = "json" /\ r.usd.k = "num"
    \/ r.kind = "json" /\ r.usd.k = "str" /\ FloatOfStr(r.usd.s).ok

\* the price delivered
ProviderPrice(r) == IF r.usd.k = "num" THEN r.usd ELSE FloatOfStr(r.usd.s).val

(* C1: for the external price E a read obtained and the configured local   *)
(* price L (SETTINGS["axo_price_usd"] as the read found it), the reply's   *)
(* axo_per_xrp is E/L when both are strictly positive, and is 0 when E is  *)
(* absent or 0, or L is 0.                                                 *)
C1_CrossRate ==
    [][\A h \in Handlers :
         Returns(h) =>
           LET E == loc[h].xrp_usd
               L == loc[h].cfg
           IN  /\ Gt0(E) /\ Gt0(L) => resp'.axo_per_xrp = Quot(E.n, L.n)
               /\ E = Num(0) \/ L = Num(0) => resp'.axo_per_xrp = Zero]_vars

(* C2: api_market never lets an exception leave it: whatever the provider  *)
(* call's outcome and whatever the settings hold, its reply is never the   *)
(* framework's reply to an uncaught exception.                             *)
C2_NeverRaises == resp.status # 500

\* a read was answered normally although its provider call raised and the
\* local price had been changed to something that is not a positive number
C2_Witness ==
    /\ resp.status = 200
    /\ resp.source = "coingecko_error"
    /\ ~Gt0(SETTINGS.axo_price_usd)
    /\ resp.axo_usd = SETTINGS.axo_price_usd

(* C3: the settings are returned or changed only in a session whose        *)
(* admin_authed is set; in any other session GET and POST                  *)
(* /api/admin/config answer 401 and leave SETTINGS as it was; admin_authed *)
(* becomes set only by an admin_login whose pin is non-empty and equal to  *)
(* a non-empty ADMIN_PIN, and admin_logout clears it.                      *)
C3_PinGate ==
    [][/\ SETTINGS' # SETTINGS \/ AXO_PRICE_USD' # AXO_PRICE_USD =>
            last'.op = "config_save" /\ last'.status = 200 /\ session[last'.s]
       /\ last' # last /\ last'.data # <<>> => session[last'.s]
       /\ last' # last /\ last'.op \in {"config", "config_save"}
            /\ ~session[last'.s] =>
              /\ last'.status = 401
              /\ last'.data = <<>>
              /\ SETTINGS' = SETTINGS
       /\ \A s \in Sessions :
            ~session[s] /\ session'[s] =>
              /\ last'.op = "login" /\ last'.s = s /\ last'.status = 200
              /\ last'.pin # Str(<<>>) /\ ADMIN_PIN # Str(<<>>)
              /\ last'.pin = ADMIN_PIN
       /\ last' # last /\ last'.op = "logout" => ~session'[last'.s]]_vars

\* one session is logged in and has changed the settings; another, not
\* logged in, has just been refused
C3_Witness ==
    \E s1, s2 \in Sessions :
      /\ session[s1] /\ ~session[s2]
      /\ SETTINGS # InitialSettings(DefaultAxoUsd, Str(<<>>))
      /\ last.s = s2 /\ last.op = "config_save" /\ last.status = 401

\* the failures of the provider call that raise inside the try block, and
\* those that do not
FailedRaising(r) ==
    \/ r.kind \in {"neterr", "notjson", "notdict", "ripplebad"}
    \/ r.kind = "json" /\ r.usd.k = "list"
    \/ r.kind = "json" /\ r.usd.k = "str" /\ ~FloatOfStr(r.usd.s).ok
FailedQuietly(r) == r.kind = "status" \/ (r.kind = "json" /\ r.usd.k = "null")

(* C4 (as claimed): once a read has returned a fetched price, a later read *)
(* returns that price again, labelled as cached, whatever its own provider *)
(* call gives.                                                             *)
C4_StaleIsAvailable ==
    [][\A h \in Handlers :
         Returns(h) /\ resp.status = 200 /\ Gt0(resp.xrp_usd) =>
           resp'.xrp_usd = resp.xrp_usd /\ resp'.source = "cached"]_vars

(* C4 (amended): a read that follows a read which returned a fetched price *)
(* returns what its own provider call gives: the price delivered, labelled *)
(* coingecko, or 0.0 when the call fails; the earlier price is not served. *)
C4_LiveRead ==
    [][\A h \in Handlers :
         Returns(h) /\ resp.status = 200 /\ Gt0(resp.xrp_usd) =>
           LET r == call[h]
           IN  /\ ProviderFailed(r) =>
                    /\ resp'.xrp_usd = Num(0)
                    /\ resp'.source \in {"coingecko", "coingecko_error"}
               /\ ProviderDelivered(r) =>
                    resp'.xrp_usd = ProviderPrice(r) /\ resp'.source = "coingecko"]_vars

\* the last reply carries a fetched price and the provider call of the read
\* in progress has failed
C4_Witness ==
    \E h \in Handlers :
      /\ pc[h] = "calc" /\ ProviderFailed(call[h])
      /\ resp.status = 200 /\ Gt0(resp.xrp_usd)

(* C5 (as claimed): within one read a second provider is asked if and only *)
(* if the first one failed (and then its price is the one returned).       *)
C5_FallbackOrdering ==
    \A h \in Handlers :
      pc[h] = "calc" => (Len(loc[h].calls) >= 2 <=> ProviderFailed(call[h]))

(* C5 (amended): a read asks one provider, CoinGecko, exactly once, and no *)
(* second provider whether that call fails or not; when it fails the price *)
(* is 0.0, when it delivers a price that price is the result.              *)
C5_SingleProvider ==
    \A h \in Handlers :
      /\ pc[h] = "calc" =>
           /\ loc[h].calls = <<"api.coingecko.com">>
           /\ ProviderFailed(call[h]) => loc[h].xrp_usd = Num(0)
           /\ ProviderDelivered(call[h]) => loc[h].xrp_usd = ProviderPrice(call[h])
      /\ pc[h] # "calc" => loc[h].calls = <<>>

\* a read whose only provider call has failed
C5_Witness ==
    \E h \in Handlers :
      /\ pc[h] = "calc" /\ ProviderFailed(call[h])
      /\ Len(loc[h].calls) = 1 /\ loc[h].xrp_usd = Num(0)

(* C6 (as claimed): the price and its time of observation, as the program  *)
(* last gave them, change only in a step in which a fetch succeeded, and   *)
(* then to that fetch's output; a step in which the provider fails leaves  *)
(* a price observed before, and its time, as they were.                    *)
C6_SnapshotKept ==
    [][/\ \A h \in Handlers :
            Returns(h) /\ ProviderFailed(call[h]) /\ Gt0(resp.xrp_usd) =>
              resp'.xrp_usd = resp.xrp_usd /\ resp'.t = resp.t
       /\ \A h \in Handlers :
            Returns(h) /\ ProviderDelivered(call[h]) =>
              resp'.xrp_usd = ProviderPrice(call[h]) /\ resp'.t = now
       /\ (\A h \in Handlers : ~Returns(h)) =>
              resp'.xrp_usd = resp.xrp_usd /\ resp'.t = resp.t]_vars

(* C6 (amended): no snapshot is kept.  The price and time a read gives are *)
(* computed by that read alone: the time is the time of the reply, the     *)
(* price is the one its call delivered, and 0.0 when its call failed; no   *)
(* other step changes them.                                                *)
C6_NoSnapshot ==
    [][/\ \A h \in Handlers :
            Returns(h) =>
              /\ resp'.t = now
              /\ ProviderFailed(call[h]) => resp'.xrp_usd = Num(0)
              /\ ProviderDelivered(call[h]) => resp'.xrp_usd = ProviderPrice(call[h])
       /\ (\A h \in Handlers : ~Returns(h)) =>
              resp'.xrp_usd = resp.xrp_usd /\ resp'.t = resp.t]_vars

\* a fetched price was given at an earlier time, and the provider call of
\* the read in progress has failed
C6_Witness ==
    \E h \in Handlers :
      /\ pc[h] = "calc" /\ ProviderFailed(call[h])
      /\ resp.status = 200 /\ Gt0(resp.xrp_usd) /\ resp.t < now

C8_FailuresAlike ==
    \A g, h \in Handlers :
      /\ pc[g] = "calc" /\ ProviderFailed(call[g])
      /\ pc[h] = "calc" /\ ProviderFailed(call[h])
      => loc[g].xrp_usd = loc[h].xrp_usd /\ loc[g].source = loc[h].source

C10_RefreshContinues ==
    \A h \in Handlers :
      (pc[h] = "calc" /\ ProviderFailed(call[h])) ~> (\E g \in Handlers : pc[g] = "fetch")

(* C10 (amended): no refresh runs independently of the callers.  The       *)
(* provider is asked only by the handler of a /api/market request, once    *)
(* per request; every request that has arrived, also one that follows a    *)
(* failed read, eventually makes its own attempt.                          *)
C10_RequestDriven ==
    /\ [][\A h \in Handlers :
            loc'[h].calls # loc[h].calls /\ loc'[h].calls # <<>> =>
              pc[h] = "fetch" /\ pc'[h] = "calc"]_vars
    /\ \A h \in Handlers :
         (pc[h] = "fetch") ~> (pc[h] = "calc" /\ Len(loc[h].calls) = 1)

\* a read whose provider call failed has been answered and no request is
\* being handled
C10_Witness ==
    /\ Quiet
    /\ resp.status = 200 /\ resp.source = "coingecko_error"

\* the settings C11 names: those normalised by as_int and those by as_float
IntSettings ==
    {"signup_bonus", "referral_reward", "daily_cap_axo", "max_claims_per_wallet",
     "rate_limit_claims_per_hour"}
FloatSettings == {"axo_price_usd", "fee_xrp"}

\* body d holds a parseable number for setting k: float() accepts the value
\* and, for a whole-number setting, int() accepts the float
HoldsNumber(d, k) ==
    /\ k \in DOMAIN d
    /\ PyFloat(d[k]).ok
    /\ k \in IntSettings => PyFloat(d[k]).val.k = "num"

\* the number parsed from it: the float, cut to a whole number for a
\* whole-number setting
ParsedNumber(d, k) ==
    IF k \in IntSettings
    THEN LET c == PyFloat(d[k]).val.n
         IN  Num(IF c < 0 THEN 0 - 100 * ((0 - c) \div 100) ELSE 100 * (c \div 100))
    ELSE PyFloat(d[k]).val

\* the step is session s's POST /api/admin/config with body p, s logged in
AuthorisedSave(s, p) == session[s] /\ admin_config_save(s, p)

(* C11: after an authorised admin_config_save each numeric setting equals  *)
(* the number parsed from the body when the body holds a parseable number  *)
(* for it, and its value before the call otherwise.                        *)
C11_NumericSettings ==
    [][\A s \in Sessions, p \in NumericPayloads :
         AuthorisedSave(s, p) =>
           \A k \in IntSettings \cup FloatSettings :
             SETTINGS'[k] = IF HoldsNumber(p.d, k) THEN ParsedNumber(p.d, k)
                            ELSE SETTINGS[k]]_vars

\* building the new values fails for body d: it holds a vault_addr that is
\* no string
BuildFails(d) == "vault_addr" \in DOMAIN d /\ d["vault_addr"].k # "str"

(* C12: admin_config_save is all-or-nothing: when building the new values  *)
(* fails on a vault_addr of the body that is no string (null included),    *)
(* the request ends in an error and every entry of SETTINGS and            *)
(* AXO_PRICE_USD are as before the call.                                   *)
C12_AllOrNothing ==
    [][\A s \in Sessions, p \in NumericPayloads :
         AuthorisedSave(s, p) /\ BuildFails(p.d) =>
           /\ last'.status = 500
           /\ last'.data = <<>>
           /\ SETTINGS' = SETTINGS
           /\ AXO_PRICE_USD' = AXO_PRICE_USD]_vars

\* a save has just ended in an error, in a session that is logged in,
\* after earlier saves changed numeric settings and the mirrored price
C12_Witness ==
    /\ last.op = "config_save" /\ last.status = 500 /\ session[last.s]
    /\ SETTINGS.signup_bonus = Num(500)
    /\ SETTINGS.axo_price_usd = Num(2) /\ AXO_PRICE_USD = Num(2)

\* start_server starts a server attempt in this step
StartsAttempt == lpc # "serving" /\ lpc' = "serving"

\* the attempt in progress raises in this step
AttemptRaises == lpc = "serving" /\ lpc' \in {"sleeping", "done"}

(* C13: start_server starts no new server attempt once 10 attempts have    *)
(* raised or once a shutdown signal has set running to False; each raising *)
(* attempt increases retry_count by exactly one; and in both cases the     *)
(* loop exits and start_server returns.                                    *)
C13_BoundedRetries ==
    /\ [][(retry_count >= max_retries \/ ~running) => ~StartsAttempt]_vars
    /\ [][AttemptRaises => retry_count' = retry_count + 1]_vars
    /\ (retry_count >= max_retries \/ ~running) ~> (lpc = "done")

====
